---- MODULE Spec2Model ----
(***************************************************************************)
(* Model of the Pulsar X2 macOS command line tool: the PulsarMouse facade  *)
(* (src/usb/usb_protocol.py), the profile store (src/config/profiles.py),  *)
(* the command templates (src/config/settings.py) and main()               *)
(* (src/pulsar_x2_macos.py).                                               *)
(*                                                                         *)
(* Conventions:                                                            *)
(*  - a command buffer is a sequence of 8 integers; byte k of the Python   *)
(*    list is element k+1 of the sequence;                                 *)
(*  - an optional argument (Python None) is the empty sequence, a given    *)
(*    argument v is <<v>>;                                                 *)
(*  - lift-off distances are kept in tenths of a millimetre (0.7 -> 7);    *)
(*  - the configuration document is a Python dict tree whose nested dicts  *)
(*    (dpi_stages, buttons, power_saving) are objects with identity: a     *)
(*    profile holds references into a heap, so that sharing is visible.    *)
(***************************************************************************)
EXTENDS Integers, Sequences, FiniteSets, TLC

VARIABLES
    pc,         \* "new" before PulsarMouse.__init__, "ready" after it
    session,    \* self.debug_mode, self.device, self.ep_in, self.ep_out
    conn,       \* what connect() did: its result and the steps that succeeded
    config,     \* self.config: profiles (with references) and active_profile
    heap,       \* the nested dict objects the profiles refer to
    disk,       \* the configuration file: its state and its parsed content
    last,       \* observation of the last facade call
    nops,       \* number of facade calls made so far
    mainPc,     \* position of main()
    args,       \* the command line and the namespace parse_arguments returns
    interactive, \* whether main() entered interactive_cli
    exitCode,   \* what main() returned: -1 while it runs
    enc,        \* the last call of a standalone encoder: its arguments and result
    templates   \* the command lists of the settings module, as they are now

docVars == <<config, heap, disk, last>>
sessVars == <<session, conn>>
mainVars == <<mainPc, args, interactive, exitCode>>
vars == <<pc, session, conn, config, heap, disk, last, nops, mainPc, args, interactive,
          exitCode, enc, templates>>

-----------------------------------------------------------------------------
(* Bounds of the model *)

\* facade calls made on one PulsarMouse
MaxOps == 3
\* options given on one command line, the debug flag not counted
MaxFlags == 2

-----------------------------------------------------------------------------
(* settings.py *)

MAX_DPI == 32000

POLLING_RATES == <<125, 250, 500, 1000, 2000, 4000, 8000>>

LIFT_OFF_DISTANCE == <<7, 10, 20>>

ActionNames ==
    {"Linksklick", "Rechtsklick", "Mittlere Taste", "Zurück", "Vorwärts",
     "DPI Hoch", "DPI Runter", "DPI Zyklus", "Scrollrad Hoch",
     "Scrollrad Runter", "Doppelklick", "Strg", "Shift", "Alt",
     "Windows/Command", "Deaktiviert"}

BUTTON_ACTIONS ==
    [n \in ActionNames |->
        CASE n = "Linksklick" -> 1
          [] n = "Rechtsklick" -> 2
          [] n = "Mittlere Taste" -> 3
          [] n = "Zurück" -> 4
          [] n = "Vorwärts" -> 5
          [] n = "DPI Hoch" -> 6
          [] n = "DPI Runter" -> 7
          [] n = "DPI Zyklus" -> 8
          [] n = "Scrollrad Hoch" -> 9
          [] n = "Scrollrad Runter" -> 10
          [] n = "Doppelklick" -> 11
          [] n = "Strg" -> 16
          [] n = "Shift" -> 17
          [] n = "Alt" -> 18
          [] n = "Windows/Command" -> 19
          [] n = "Deaktiviert" -> 0]

Template(opcode) == <<opcode, 0, 0, 0, 0, 0, 0, 0>>

CMD_GET_INFO == Template(16)
CMD_GET_SETTINGS == Template(18)
CMD_SET_DPI == Template(32)
CMD_SET_POLLING == Template(48)
CMD_SET_LIFTOFF == Template(64)
CMD_SET_BUTTON == Template(80)
CMD_SET_MOTION_SYNC == Template(96)
CMD_SET_POWER == Template(112)
CMD_SAVE_PROFILE == Template(240)

\* the nine lists under their names, as the import of settings leaves them:
\* each is one list object that every importer shares
CommandTemplates ==
    [CMD_GET_INFO |-> CMD_GET_INFO, CMD_GET_SETTINGS |-> CMD_GET_SETTINGS,
     CMD_SET_DPI |-> CMD_SET_DPI, CMD_SET_POLLING |-> CMD_SET_POLLING,
     CMD_SET_LIFTOFF |-> CMD_SET_LIFTOFF, CMD_SET_BUTTON |-> CMD_SET_BUTTON,
     CMD_SET_MOTION_SYNC |-> CMD_SET_MOTION_SYNC, CMD_SET_POWER |-> CMD_SET_POWER,
     CMD_SAVE_PROFILE |-> CMD_SAVE_PROFILE]

-----------------------------------------------------------------------------
(* Python primitives *)

Max(a, b) == IF a >= b THEN a ELSE b
Min(a, b) == IF a <= b THEN a ELSE b
Abs(x) == IF x < 0 THEN -x ELSE x

\* str(n) for the one-digit numbers the program turns into dict keys
str(n) ==
    CASE n = 0 -> "0" [] n = 1 -> "1" [] n = 2 -> "2" [] n = 3 -> "3"
      [] n = 4 -> "4" [] n = 5 -> "5" [] n = 6 -> "6" [] n = 7 -> "7"
      [] n = 8 -> "8" [] n = 9 -> "9"

\* round(x / 10) for an integer x >= 0: x / 10 is exact at the halves, and
\* Python 3 rounds a half to the even neighbour
PyRoundDiv10(x) ==
    LET q == x \div 10
        r == x % 10
    IN  IF r < 5 THEN q
        ELSE IF r > 5 THEN q + 1
        ELSE IF q % 2 = 0 THEN q ELSE q + 1

\* the high byte taken without the shift: dpi & 0xFF a second time
HighByte_Unshifted(x) == x % 256

\* the low byte taken without the mask
LowByte_Unmasked(x) == x

\* (x >> 8) & 0xFF and x & 0xFF
HighByte(x) == (x \div 256) % 256
LowByte(x) == x % 256

\* min(seq, key=lambda x: abs(x - v)): the first element with the least key
RECURSIVE MinByDistance(_, _, _, _)
MinByDistance(seq, v, i, best) ==
    IF i > Len(seq) THEN best
    ELSE MinByDistance(seq, v, i + 1,
            IF Abs(seq[i] - v) < Abs(best - v) THEN seq[i] ELSE best)

\* a minimum that keeps the last of two equally near elements
Closest_UpperOnTie(seq, v) ==
    CHOOSE x \in {seq[i] : i \in 1..Len(seq)} :
        \A y \in {seq[i] : i \in 1..Len(seq)} :
            Abs(x - v) < Abs(y - v) \/ (Abs(x - v) = Abs(y - v) /\ x >= y)

Closest(seq, v) == MinByDistance(seq, v, 2, seq[1])

SeqToSet(seq) == {seq[i] : i \in 1..Len(seq)}

\* index of v in seq, counted from 0 (the rate_values / dist_values tables)
IndexOf(seq, v) == (CHOOSE i \in 1..Len(seq) : seq[i] = v) - 1

-----------------------------------------------------------------------------
(* The configuration document (profiles.py) *)

ProfileIds == {"1", "2", "3", "4"}
StageIds == {"1", "2", "3", "4", "5", "6"}
ButtonIds == {"1", "2", "3", "4", "5"}

\* one address more than there can be profiles: a fresh object always exists
Addrs == 1..(Cardinality(ProfileIds) + 1)

\* the nested dicts of profile "1" in create_default_config()
DefaultDpiStages ==
    [s \in StageIds |->
        CASE s = "1" -> 800 [] s = "2" -> 1600 [] s = "3" -> 3200
          [] s = "4" -> 6400 [] s = "5" -> 12800 [] s = "6" -> 25600]

DefaultButtons ==
    [b \in ButtonIds |->
        CASE b = "1" -> [action |-> "Linksklick", code |-> 1]
          [] b = "2" -> [action |-> "Rechtsklick", code |-> 2]
          [] b = "3" -> [action |-> "Mittlere Taste", code |-> 3]
          [] b = "4" -> [action |-> "Zurück", code |-> 4]
          [] b = "5" -> [action |-> "Vorwärts", code |-> 5]]

DefaultPowerSaving == [idle_time |-> 30, low_battery_threshold |-> 10]

\* profile "1" of create_default_config() as a value (a tree without sharing)
DefaultProfile ==
    [dpi_stages |-> DefaultDpiStages,
     active_dpi_stage |-> 2,
     polling_rate |-> 1000,
     liftoff_distance |-> 10,
     buttons |-> DefaultButtons,
     motion_sync |-> TRUE,
     ripple_control |-> FALSE,
     angle_snap |-> FALSE,
     debounce_time |-> 3,
     power_saving |-> DefaultPowerSaving]

create_default_config ==
    [profiles |-> [p \in {"1"} |-> DefaultProfile], active_profile |-> "1"]

\* the least address of 1..n that no profile refers to
FreeAddr(used) == CHOOSE a \in Addrs : a \notin used /\ \A b \in Addrs : b < a => b \in used

\* a profile dict whose nested dicts are the objects at the given addresses
ProfileObject(value, d, b, w) ==
    [value EXCEPT !.dpi_stages = d, !.buttons = b, !.power_saving = w]

\* the profile as a value: every reference replaced by the object it names
Deref(h, prof) ==
    [prof EXCEPT !.dpi_stages = h.dpi[prof.dpi_stages],
                 !.buttons = h.btn[prof.buttons],
                 !.power_saving = h.pwr[prof.power_saving]]

\* the document as a value, the way json.dump walks it and == compares it
Document(c, h) ==
    [profiles |-> [p \in DOMAIN c.profiles |-> Deref(h, c.profiles[p])],
     active_profile |-> c.active_profile]

\* a writer that puts "?" for every letter outside ASCII
JsonString_Replaced(t) ==
    CASE t = "Zurück" -> "Zur?ck"
      [] t = "Vorwärts" -> "Vorw?rts"
      [] OTHER -> t

\* a string as json.dump writes it (ensure_ascii): a letter outside ASCII
\* becomes its \uXXXX escape
JsonString(t) ==
    CASE t = "Zurück" -> "Zur\\u00fcck"
      [] t = "Vorwärts" -> "Vorw\\u00e4rts"
      [] OTHER -> t

\* the string json.load reads from such text
PyString(t) ==
    CASE t = "Zur\\u00fcck" -> "Zurück"
      [] t = "Vorw\\u00e4rts" -> "Vorwärts"
      [] OTHER -> t

\* a float as json.dump writes it (repr): the digits before and after the
\* point of a distance kept in tenths, 7 -> 0.7; and the float read back
JsonFloat(x) == <<x \div 10, x % 10>>
PyFloat(n) == n[1] * 10 + n[2]

\* True and False are written true and false
JsonBool(b) == IF b THEN "true" ELSE "false"
PyBool(t) == t = "true"

\* json.dump(tree): dict keys are written as strings (the keys of the
\* document are strings already), integers as they are
json_dump(tree) ==
    [profiles |->
        [p \in DOMAIN tree.profiles |->
            LET v == tree.profiles[p] IN
            [v EXCEPT !.liftoff_distance = JsonFloat(v.liftoff_distance),
                      !.motion_sync = JsonBool(v.motion_sync),
                      !.ripple_control = JsonBool(v.ripple_control),
                      !.angle_snap = JsonBool(v.angle_snap),
                      !.buttons = [b \in DOMAIN v.buttons |->
                                    [action |-> JsonString(v.buttons[b].action),
                                     code |-> v.buttons[b].code]]]],
     active_profile |-> JsonString(tree.active_profile)]

\* json.load(text) of a text json.dump wrote
json_load(text) ==
    [profiles |->
        [p \in DOMAIN text.profiles |->
            LET v == text.profiles[p] IN
            [v EXCEPT !.liftoff_distance = PyFloat(v.liftoff_distance),
                      !.motion_sync = PyBool(v.motion_sync),
                      !.ripple_control = PyBool(v.ripple_control),
                      !.angle_snap = PyBool(v.angle_snap),
                      !.buttons = [b \in DOMAIN v.buttons |->
                                    [action |-> PyString(v.buttons[b].action),
                                     code |-> v.buttons[b].code]]]],
     active_profile |-> PyString(text.active_profile)]

\* json.dump(config, f): the text the file then holds
Serialize(c, h) == json_dump(Document(c, h))

\* the objects json.load builds from a tree: every nested dict is a new
\* object, profile by profile
RECURSIVE Materialize(_, _, _, _)
Materialize(tree, todo, c, h) ==
    IF todo = {} THEN [config |-> c, heap |-> h]
    ELSE LET p == CHOOSE q \in todo : TRUE
             d == FreeAddr(DOMAIN h.dpi)
             b == FreeAddr(DOMAIN h.btn)
             w == FreeAddr(DOMAIN h.pwr)
             v == tree.profiles[p]
         IN  Materialize(tree, todo \ {p},
                [c EXCEPT !.profiles =
                    [q \in DOMAIN c.profiles \cup {p} |->
                        IF q = p THEN ProfileObject(v, d, b, w) ELSE c.profiles[q]]],
                [dpi |-> [a \in DOMAIN h.dpi \cup {d} |->
                            IF a = d THEN v.dpi_stages ELSE h.dpi[a]],
                 btn |-> [a \in DOMAIN h.btn \cup {b} |->
                            IF a = b THEN v.buttons ELSE h.btn[a]],
                 pwr |-> [a \in DOMAIN h.pwr \cup {w} |->
                            IF a = w THEN v.power_saving ELSE h.pwr[a]]])

EmptyHeap == [dpi |-> <<>>, btn |-> <<>>, pwr |-> <<>>]

Build(tree) ==
    Materialize(tree, DOMAIN tree.profiles,
                [profiles |-> <<>>, active_profile |-> tree.active_profile],
                EmptyHeap)

\* objects no profile refers to any more are reclaimed
Collect(c, h) ==
    [dpi |-> [a \in {c.profiles[p].dpi_stages : p \in DOMAIN c.profiles} |-> h.dpi[a]],
     btn |-> [a \in {c.profiles[p].buttons : p \in DOMAIN c.profiles} |-> h.btn[a]],
     pwr |-> [a \in {c.profiles[p].power_saving : p \in DOMAIN c.profiles} |-> h.pwr[a]]]

\* a loader that falls back to the default only when there is no file
load_config_EmptyOnError(d) ==
    IF d.state = "valid" THEN Build(json_load(d.doc[1]))
    ELSE IF d.state = "missing" THEN Build(create_default_config)
    ELSE Build([profiles |-> <<>>, active_profile |-> "1"])

\* load_config(): the file is "missing", "unreadable" (open raises),
\* "invalid" (json.load raises) or "valid"; the document read from a valid
\* file, the default document in every other case
load_config(d) ==
    IF d.state = "valid" THEN Build(json_load(d.doc[1])) ELSE Build(create_default_config)

\* a save that reports success but leaves a file that is already there as
\* it is
save_config_KeepsExistingFile(d, c, h, io) ==
    IF io = "ok" /\ d.state # "valid"
    THEN [state |-> "valid", doc |-> <<Serialize(c, h)>>]
    ELSE d

\* save_config(config): io is whether the directory and the file can be written
save_config(d, c, h, io) ==
    IF io = "ok" THEN [state |-> "valid", doc |-> <<Serialize(c, h)>>] ELSE d

-----------------------------------------------------------------------------
(* The device session (usb_protocol.py) *)

\* what the USB library does when connect() runs: the outcome of each call
UsbEnvs ==
    [find : {"none", "error", "found"},
     kernel : {"ok", "error"},
     configure : {"ok", "denied", "error"},
     active : {"ok", "error"},
     has_in : BOOLEAN,
     has_out : BOOLEAN]

NoSession(debug) == [debug_mode |-> debug, device |-> FALSE, ep_in |-> FALSE, ep_out |-> FALSE]

\* _find_endpoints(): ep_in and ep_out are assigned as found, then the
\* check raises ValueError unless both were found; a failing
\* get_active_configuration() raises before either is assigned
find_endpoints(s, env) ==
    IF env.active = "error"
    THEN [session |-> s, raised |-> "USBError"]
    ELSE [session |-> [s EXCEPT !.ep_in = env.has_in, !.ep_out = env.has_out],
          raised |-> IF env.has_in /\ env.has_out THEN "none" ELSE "ValueError"]

\* connect(): result is what connect() hands to its caller ("True", "False"
\* or "raised"); reached is the last transition of the session state machine
\* that succeeded; failed is the step that failed
connect(s, env) ==
    IF env.find = "error"
    THEN [session |-> s, result |-> "False", reached |-> "Disconnected", failed |-> "find"]
    ELSE IF env.find = "none"
    THEN [session |-> s, result |-> "False", reached |-> "Disconnected", failed |-> "find"]
    ELSE LET s1 == [s EXCEPT !.device = TRUE] IN
         IF env.kernel = "error"
         THEN [session |-> s1, result |-> "False", reached |-> "Disconnected", failed |-> "kernel"]
         ELSE IF env.configure # "ok"
         THEN [session |-> s1, result |-> "False", reached |-> "Disconnected", failed |-> "configure"]
         ELSE LET f == find_endpoints(s1, env) IN
              IF f.raised = "none"
              THEN [session |-> f.session, result |-> "True",
                    reached |-> "EndpointsResolved", failed |-> "none"]
              ELSE [session |-> f.session, result |-> "False",
                    reached |-> "Connected", failed |-> "endpoints"]

\* the command line of a process that is not run through main()
NoArgs == [argv |-> <<>>, ns |-> <<>>]

NotConnected == [result |-> "not_called", reached |-> "Disconnected", failed |-> "none"]

\* bytearray([0] * 8), the answer send_command makes up in debug mode
ZeroReply == <<0, 0, 0, 0, 0, 0, 0, 0>>

\* what device.read returns: a full answer, or one of fewer than five bytes
DeviceReply == <<16, 1, 2, 3, 1, 0, 0, 0>>
ShortReply == <<16, 1>>

\* a debug branch that returns None whether or not an answer is expected
send_command_DebugReturnsNone(s, command, expect_response, wr, rd) ==
    IF s.debug_mode \/ ~s.device \/ ~s.ep_out
    THEN [writes |-> <<>>, delivered |-> FALSE, reads |-> 0, response |-> <<>>]
    ELSE IF wr = "error"
    THEN [writes |-> <<command>>, delivered |-> FALSE, reads |-> 0, response |-> <<>>]
    ELSE IF ~expect_response \/ ~s.ep_in
    THEN [writes |-> <<command>>, delivered |-> TRUE, reads |-> 0, response |-> <<>>]
    ELSE [writes |-> <<command>>, delivered |-> TRUE, reads |-> 1,
          response |-> CASE rd = "data" -> <<DeviceReply>>
                         [] rd = "short" -> <<ShortReply>>
                         [] OTHER -> <<>>]

\* a send_command that goes on to read the answer after a write that failed
send_command_ReadsAfterFailedWrite(s, command, expect_response, wr, rd) ==
    IF s.debug_mode
    THEN [writes |-> <<>>, delivered |-> FALSE, reads |-> 0,
          response |-> IF expect_response THEN <<ZeroReply>> ELSE <<>>]
    ELSE IF ~s.device \/ ~s.ep_out
    THEN [writes |-> <<>>, delivered |-> FALSE, reads |-> 0, response |-> <<>>]
    ELSE IF ~expect_response \/ ~s.ep_in
    THEN [writes |-> <<command>>, delivered |-> wr = "ok", reads |-> 0, response |-> <<>>]
    ELSE [writes |-> <<command>>, delivered |-> wr = "ok", reads |-> 1,
          response |-> CASE rd = "data" -> <<DeviceReply>>
                         [] rd = "short" -> <<ShortReply>>
                         [] OTHER -> <<>>]

\* send_command(command, expect_response): wr and rd are what device.write
\* and device.read do when they are called.  writes are the buffers handed to
\* device.write, delivered is whether that call returned, reads counts the
\* calls of device.read; every exception is caught, the result is then None
send_command(s, command, expect_response, wr, rd) ==
    IF s.debug_mode
    THEN [writes |-> <<>>, delivered |-> FALSE, reads |-> 0,
          response |-> IF expect_response THEN <<ZeroReply>> ELSE <<>>]
    ELSE IF ~s.device \/ ~s.ep_out
    THEN [writes |-> <<>>, delivered |-> FALSE, reads |-> 0, response |-> <<>>]
    ELSE IF wr = "error"
    THEN [writes |-> <<command>>, delivered |-> FALSE, reads |-> 0, response |-> <<>>]
    ELSE IF ~expect_response
    THEN [writes |-> <<command>>, delivered |-> TRUE, reads |-> 0, response |-> <<>>]
    ELSE IF ~s.ep_in
    THEN [writes |-> <<command>>, delivered |-> TRUE, reads |-> 0, response |-> <<>>]
    ELSE [writes |-> <<command>>, delivered |-> TRUE, reads |-> 1,
          response |-> CASE rd = "data" -> <<DeviceReply>>
                         [] rd = "short" -> <<ShortReply>>
                         [] OTHER -> <<>>]

WriteOutcomes == {"ok", "error"}
ReadOutcomes == {"data", "short", "timeout", "error"}
IoOutcomes == {"ok", "fail"}

-----------------------------------------------------------------------------
(* Observation of one facade call *)

NoCall ==
    [op |-> "none", raised |-> "none", steps |-> <<>>, sent |-> <<>>,
     writes |-> <<>>, delivered |-> FALSE, reads |-> 0, response |-> <<>>,
     saved |-> "none"]

\* no standalone encoder has been called
NoEncoding == [fn |-> "none", args |-> <<>>, result |-> <<>>]

\* the call raised before it changed, sent or saved anything
Raised(op, exc) == [NoCall EXCEPT !.op = op, !.raised = exc]

\* the call returned early: nothing changed, sent or saved
Returned(op) == [NoCall EXCEPT !.op = op]

SaveResult(io) == IF io = "ok" THEN "True" ELSE "False"

-----------------------------------------------------------------------------
(* PulsarMouse.__init__ *)

\* the state of a process that has not made its PulsarMouse yet
Fresh ==
    /\ pc = "new"
    /\ session = NoSession(FALSE)
    /\ conn = NotConnected
    /\ config = [profiles |-> <<>>, active_profile |-> "1"]
    /\ heap = EmptyHeap
    /\ last = NoCall
    /\ nops = 0
    /\ interactive = FALSE
    /\ exitCode = -1
    /\ enc = NoEncoding
    /\ templates = CommandTemplates

Init ==
    /\ Fresh
    /\ disk = [state |-> "missing", doc |-> <<>>]
    /\ mainPc = "idle"
    /\ args = NoArgs

\* __init__(debug_mode): load the document, then connect() unless debugging;
\* the result of connect() is not looked at
Construct(debug, env) ==
    /\ pc = "new"
    /\ LET l == load_config(disk)
           k == connect(NoSession(debug), env)
       IN  /\ config' = l.config
           /\ heap' = l.heap
           /\ IF debug
              THEN session' = NoSession(TRUE) /\ conn' = NotConnected
              ELSE /\ session' = k.session
                   /\ conn' = [result |-> k.result, reached |-> k.reached, failed |-> k.failed]
    /\ pc' = "ready"
    /\ UNCHANGED <<disk, last, nops, templates>>

-----------------------------------------------------------------------------
(* The facade setters (usb_protocol.py).  Each is the whole method: the     *)
(* lookup of the active profile (a KeyError when active_profile names no    *)
(* profile), the update of the document, send_command and save_config.      *)

HasActive == config.active_profile \in DOMAIN config.profiles
Active == config.profiles[config.active_profile]

\* a setter that gives up when the command did not reach the device: the
\* document is updated in memory but never saved
Completed_SaveOnlyWhenDelivered(op, order, config2, heap2, command, wr, io) ==
    LET r == send_command(session, command, FALSE, wr, "data") IN
    /\ config' = config2
    /\ heap' = heap2
    /\ disk' = IF r.delivered THEN save_config(disk, config2, heap2, io) ELSE disk
    /\ UNCHANGED templates
    /\ last' = [op |-> op, raised |-> "none",
                steps |-> IF r.delivered THEN order ELSE <<"mutate", "send">>,
                sent |-> <<command>>, writes |-> r.writes, delivered |-> r.delivered,
                reads |-> r.reads, response |-> r.response,
                saved |-> IF r.delivered THEN SaveResult(io) ELSE "none"]

\* what a setter leaves behind after its three steps, in program order:
\* the document was updated (heap2, config2), then command was handed to
\* send_command, then save_config wrote the updated document
Completed(op, order, config2, heap2, command, wr, io) ==
    LET r == send_command(session, command, FALSE, wr, "data") IN
    /\ config' = config2
    /\ heap' = heap2
    /\ disk' = save_config(disk, config2, heap2, io)
    /\ UNCHANGED templates
    /\ last' = [op |-> op, raised |-> "none", steps |-> order,
                sent |-> <<command>>, writes |-> r.writes, delivered |-> r.delivered,
                reads |-> r.reads, response |-> r.response, saved |-> SaveResult(io)]

Fails(op, exc) ==
    /\ last' = Raised(op, exc)
    /\ UNCHANGED <<config, heap, disk, templates>>

Rejects(op) ==
    /\ last' = Returned(op)
    /\ UNCHANGED <<config, heap, disk, templates>>

SetterOrder == <<"mutate", "send", "persist">>

\* the clamp without the rounding step
NormalizeDpi_Unrounded(dpi) == Max(50, Min(MAX_DPI, dpi))

\* max(50, min(MAX_DPI, dpi)), then round(dpi / 10) * 10
NormalizeDpi(dpi) == PyRoundDiv10(Max(50, Min(MAX_DPI, dpi))) * 10

\* command = CMD_SET_DPI without .copy(): the bytes are written into the list
\* of the settings module
set_dpi_SharedTemplate(dpi, stage, wr, io) ==
    IF ~HasActive THEN Fails("set_dpi", "KeyError")
    ELSE LET stage0 == IF stage = <<>> THEN Active.active_dpi_stage ELSE stage[1]
             stage1 == IF 1 <= stage0 /\ stage0 <= 6 THEN stage0 ELSE 1
             value == NormalizeDpi(dpi)
             heap2 == [heap EXCEPT !.dpi[Active.dpi_stages][str(stage1)] = value]
             command == [templates.CMD_SET_DPI EXCEPT ![2] = stage1,
                                                      ![3] = HighByte(value),
                                                      ![4] = LowByte(value)]
             r == send_command(session, command, FALSE, wr, "data")
         IN  /\ config' = config
             /\ heap' = heap2
             /\ disk' = save_config(disk, config, heap2, io)
             /\ templates' = [templates EXCEPT !.CMD_SET_DPI = command]
             /\ last' = [op |-> "set_dpi", raised |-> "none", steps |-> SetterOrder,
                         sent |-> <<command>>, writes |-> r.writes,
                         delivered |-> r.delivered, reads |-> r.reads,
                         response |-> r.response, saved |-> SaveResult(io)]

set_dpi(dpi, stage, wr, io) ==
    IF ~HasActive THEN Fails("set_dpi", "KeyError")
    ELSE LET stage0 == IF stage = <<>> THEN Active.active_dpi_stage ELSE stage[1]
             stage1 == IF 1 <= stage0 /\ stage0 <= 6 THEN stage0 ELSE 1
             value == NormalizeDpi(dpi)
             heap2 == [heap EXCEPT !.dpi[Active.dpi_stages][str(stage1)] = value]
             command == [templates.CMD_SET_DPI EXCEPT ![2] = stage1,
                                            ![3] = HighByte(value),
                                            ![4] = LowByte(value)]
         IN  Completed("set_dpi", SetterOrder, config, heap2, command, wr, io)

set_polling_rate(rate, wr, io) ==
    LET rate1 == IF rate \in SeqToSet(POLLING_RATES) THEN rate
                 ELSE Closest(POLLING_RATES, rate)
    IN  IF ~HasActive THEN Fails("set_polling_rate", "KeyError")
        ELSE LET config2 == [config EXCEPT
                                !.profiles[config.active_profile].polling_rate = rate1]
                 command == [templates.CMD_SET_POLLING EXCEPT ![2] = IndexOf(POLLING_RATES, rate1)]
             IN  Completed("set_polling_rate", SetterOrder, config2, heap, command, wr, io)

set_liftoff_distance(distance, wr, io) ==
    LET distance1 == IF distance \in SeqToSet(LIFT_OFF_DISTANCE) THEN distance
                     ELSE Closest(LIFT_OFF_DISTANCE, distance)
    IN  IF ~HasActive THEN Fails("set_liftoff_distance", "KeyError")
        ELSE LET config2 == [config EXCEPT
                                !.profiles[config.active_profile].liftoff_distance = distance1]
                 command == [templates.CMD_SET_LIFTOFF EXCEPT
                                ![2] = IndexOf(LIFT_OFF_DISTANCE, distance1)]
             IN  Completed("set_liftoff_distance", SetterOrder, config2, heap, command, wr, io)

set_button_mapping(button, action_name, wr, io) ==
    IF ~(1 <= button /\ button <= 5) THEN Rejects("set_button_mapping")
    ELSE IF action_name \notin DOMAIN BUTTON_ACTIONS THEN Rejects("set_button_mapping")
    ELSE IF ~HasActive THEN Fails("set_button_mapping", "KeyError")
    ELSE LET action_code == BUTTON_ACTIONS[action_name]
             heap2 == [heap EXCEPT !.btn[Active.buttons][str(button)] =
                            [action |-> action_name, code |-> action_code]]
             command == [templates.CMD_SET_BUTTON EXCEPT ![2] = button, ![3] = action_code]
         IN  Completed("set_button_mapping", SetterOrder, config, heap2, command, wr, io)

\* a setter that takes its change back when the save fails
set_motion_sync_RolledBack(enabled, wr, io) ==
    IF ~HasActive THEN Fails("set_motion_sync", "KeyError")
    ELSE LET config2 == IF io = "ok"
                        THEN [config EXCEPT
                                !.profiles[config.active_profile].motion_sync = enabled]
                        ELSE config
             command == [templates.CMD_SET_MOTION_SYNC EXCEPT ![2] = IF enabled THEN 1 ELSE 0]
         IN  Completed("set_motion_sync", SetterOrder, config2, heap, command, wr, io)

\* a setter that flips the stored flag whenever it is asked for the value
\* the flag has
set_motion_sync_Toggle(enabled, wr, io) ==
    IF ~HasActive THEN Fails("set_motion_sync", "KeyError")
    ELSE LET config2 == [config EXCEPT !.profiles[config.active_profile].motion_sync =
                            IF enabled = Active.motion_sync THEN ~enabled ELSE enabled]
             command == [templates.CMD_SET_MOTION_SYNC EXCEPT ![2] = IF enabled THEN 1 ELSE 0]
         IN  Completed("set_motion_sync", SetterOrder, config2, heap, command, wr, io)

set_motion_sync(enabled, wr, io) ==
    IF ~HasActive THEN Fails("set_motion_sync", "KeyError")
    ELSE LET config2 == [config EXCEPT
                            !.profiles[config.active_profile].motion_sync = enabled]
             command == [templates.CMD_SET_MOTION_SYNC EXCEPT ![2] = IF enabled THEN 1 ELSE 0]
         IN  Completed("set_motion_sync", SetterOrder, config2, heap, command, wr, io)

\* the threshold stored and sent as it was given
set_power_saving_ThresholdUnclamped(idle_time, low_battery_threshold, wr, io) ==
    LET idle1 == Max(30, Min(900, idle_time))
    IN  IF ~HasActive THEN Fails("set_power_saving", "KeyError")
        ELSE LET given == low_battery_threshold # <<>>
                 heap1 == [heap EXCEPT !.pwr[Active.power_saving].idle_time = idle1]
                 heap2 == IF given
                          THEN [heap1 EXCEPT !.pwr[Active.power_saving].low_battery_threshold
                                                = low_battery_threshold[1]]
                          ELSE heap1
                 command1 == [templates.CMD_SET_POWER EXCEPT ![2] = LowByte(idle1),
                                                   ![3] = HighByte(idle1)]
                 command == IF given
                            THEN [command1 EXCEPT ![4] = low_battery_threshold[1] % 256]
                            ELSE command1
             IN  Completed("set_power_saving", SetterOrder, config, heap2, command, wr, io)

\* a threshold that is not given taken to be the default threshold
set_power_saving_DefaultThreshold(idle_time, low_battery_threshold, wr, io) ==
    LET idle1 == Max(30, Min(900, idle_time))
        thr1 == IF low_battery_threshold = <<>>
                THEN DefaultPowerSaving.low_battery_threshold
                ELSE Max(5, Min(20, low_battery_threshold[1]))
    IN  IF ~HasActive THEN Fails("set_power_saving", "KeyError")
        ELSE LET heap2 == [heap EXCEPT !.pwr[Active.power_saving] =
                                [idle_time |-> idle1, low_battery_threshold |-> thr1]]
                 command == [templates.CMD_SET_POWER EXCEPT ![2] = LowByte(idle1),
                                                  ![3] = HighByte(idle1),
                                                  ![4] = thr1]
             IN  Completed("set_power_saving", SetterOrder, config, heap2, command, wr, io)

set_power_saving(idle_time, low_battery_threshold, wr, io) ==
    LET idle1 == IF 30 <= idle_time /\ idle_time <= 900 THEN idle_time
                 ELSE Max(30, Min(900, idle_time))
    IN  IF ~HasActive THEN Fails("set_power_saving", "KeyError")
        ELSE LET given == low_battery_threshold # <<>>
                 thr1 == IF 5 <= low_battery_threshold[1] /\ low_battery_threshold[1] <= 20
                         THEN low_battery_threshold[1]
                         ELSE Max(5, Min(20, low_battery_threshold[1]))
                 heap1 == [heap EXCEPT !.pwr[Active.power_saving].idle_time = idle1]
                 heap2 == IF given
                          THEN [heap1 EXCEPT
                                  !.pwr[Active.power_saving].low_battery_threshold = thr1]
                          ELSE heap1
                 command1 == [templates.CMD_SET_POWER EXCEPT ![2] = LowByte(idle1),
                                                   ![3] = HighByte(idle1)]
                 command == IF given THEN [command1 EXCEPT ![4] = thr1] ELSE command1
             IN  Completed("set_power_saving", SetterOrder, config, heap2, command, wr, io)

\* a save that creates the profile it names, as a copy of the active one,
\* when the document does not have it
save_to_profile_CreatesProfile(profile_num, wr, io) ==
    IF ~(1 <= profile_num /\ profile_num <= 4) THEN Rejects("save_to_profile")
    ELSE LET command == [templates.CMD_SAVE_PROFILE EXCEPT ![2] = profile_num]
             target == str(profile_num)
             profiles2 == IF HasActive /\ target \notin DOMAIN config.profiles
                          THEN [p \in DOMAIN config.profiles \cup {target} |->
                                    IF p = target THEN Active ELSE config.profiles[p]]
                          ELSE config.profiles
             config2 == [active_profile |-> target, profiles |-> profiles2]
         IN  Completed("save_to_profile", <<"send", "mutate", "persist">>,
                       config2, heap, command, wr, io)

\* save_to_profile(profile_num): the command is sent first, then
\* active_profile is set, then the document is saved
save_to_profile(profile_num, wr, io) ==
    IF ~(1 <= profile_num /\ profile_num <= 4) THEN Rejects("save_to_profile")
    ELSE LET command == [templates.CMD_SAVE_PROFILE EXCEPT ![2] = profile_num]
             config2 == [config EXCEPT !.active_profile = str(profile_num)]
         IN  Completed("save_to_profile", <<"send", "mutate", "persist">>,
                       config2, heap, command, wr, io)

\* get_device_info(): prints in debug mode, else sends CMD_GET_INFO and
\* prints bytes 1 to 4 of the answer, an IndexError when it is shorter
get_device_info(wr, rd) ==
    /\ IF session.debug_mode
       THEN last' = Returned("get_device_info")
       ELSE LET r == send_command(session, templates.CMD_GET_INFO, TRUE, wr, rd) IN
            last' = [op |-> "get_device_info",
                     raised |-> IF r.response # <<>> /\ Len(r.response[1]) < 5
                                THEN "IndexError" ELSE "none",
                     steps |-> <<"send">>,
                     sent |-> <<templates.CMD_GET_INFO>>, writes |-> r.writes,
                     delivered |-> r.delivered, reads |-> r.reads,
                     response |-> r.response, saved |-> "none"]
    /\ UNCHANGED <<config, heap, disk, templates>>

\* show_current_settings() -> print_profile_settings(config): prints an
\* error and returns when the active profile does not exist
show_current_settings ==
    /\ last' = Returned("show_current_settings")
    /\ UNCHANGED <<config, heap, disk, templates>>

-----------------------------------------------------------------------------
(* copy_profile and reset_profile (profiles.py), applied to the document    *)

\* config["profiles"][target_id] = config["profiles"][source_id].copy():
\* dict.copy() makes a new profile dict whose entries are the same objects
copy_profile(source_id, target_id) ==
    IF source_id \notin DOMAIN config.profiles THEN Rejects("copy_profile")
    ELSE LET config2 == [config EXCEPT !.profiles =
                            [p \in DOMAIN config.profiles \cup {target_id} |->
                                IF p = target_id THEN config.profiles[source_id]
                                ELSE config.profiles[p]]]
         IN  /\ config' = config2
             /\ heap' = Collect(config2, heap)
             /\ last' = Returned("copy_profile")
             /\ UNCHANGED <<disk, templates>>

\* a reset that also makes the profile it resets the active one
reset_profile_MakesActive(profile_id) ==
    IF profile_id \notin DOMAIN config.profiles THEN Rejects("reset_profile")
    ELSE LET others == [p \in DOMAIN config.profiles \ {profile_id} |-> config.profiles[p]]
             kept == Collect([config EXCEPT !.profiles = others], heap)
             d == FreeAddr(DOMAIN kept.dpi)
             b == FreeAddr(DOMAIN kept.btn)
             w == FreeAddr(DOMAIN kept.pwr)
         IN  /\ config' = [config EXCEPT !.active_profile = profile_id,
                                         !.profiles[profile_id] =
                                            ProfileObject(DefaultProfile, d, b, w)]
             /\ heap' = [dpi |-> [a \in DOMAIN kept.dpi \cup {d} |->
                                    IF a = d THEN DefaultDpiStages ELSE kept.dpi[a]],
                         btn |-> [a \in DOMAIN kept.btn \cup {b} |->
                                    IF a = b THEN DefaultButtons ELSE kept.btn[a]],
                         pwr |-> [a \in DOMAIN kept.pwr \cup {w} |->
                                    IF a = w THEN DefaultPowerSaving ELSE kept.pwr[a]]]
             /\ last' = Returned("reset_profile")
             /\ UNCHANGED <<disk, templates>>

\* config["profiles"][profile_id] = create_default_config()["profiles"]["1"].copy():
\* the nested dicts of a newly built default document are new objects
reset_profile(profile_id) ==
    IF profile_id \notin DOMAIN config.profiles THEN Rejects("reset_profile")
    ELSE LET others == [p \in DOMAIN config.profiles \ {profile_id} |-> config.profiles[p]]
             kept == Collect([config EXCEPT !.profiles = others], heap)
             d == FreeAddr(DOMAIN kept.dpi)
             b == FreeAddr(DOMAIN kept.btn)
             w == FreeAddr(DOMAIN kept.pwr)
         IN  /\ config' = [config EXCEPT !.profiles[profile_id] =
                                ProfileObject(DefaultProfile, d, b, w)]
             /\ heap' = [dpi |-> [a \in DOMAIN kept.dpi \cup {d} |->
                                    IF a = d THEN DefaultDpiStages ELSE kept.dpi[a]],
                         btn |-> [a \in DOMAIN kept.btn \cup {b} |->
                                    IF a = b THEN DefaultButtons ELSE kept.btn[a]],
                         pwr |-> [a \in DOMAIN kept.pwr \cup {w} |->
                                    IF a = w THEN DefaultPowerSaving ELSE kept.pwr[a]]]
             /\ last' = Returned("reset_profile")
             /\ UNCHANGED <<disk, templates>>

-----------------------------------------------------------------------------
(* The facade under an arbitrary caller: arguments drawn from small sets    *)

DpiArgs == {-5, 55, 1605, 1614, 40000}
StageArgs == {<<>>, <<2>>, <<7>>}
RateArgs == {500, 3000}
DistanceArgs == {7, 15}
ButtonArgs == {3, 6}
ActionArgs == {"DPI Hoch", "Taste X"}
IdleArgs == {20, 1000}
ThresholdArgs == {<<>>, <<25>>}
ProfileNumArgs == {1, 2, 5}
ProfileIdArgs == {"1", "2"}

Ready == pc = "ready" /\ nops < MaxOps

Called == nops' = nops + 1 /\ UNCHANGED <<pc, session, conn, mainPc, args, interactive, exitCode, enc>>

\* the device is absent, or present with both endpoints
FacadeEnvs ==
    {e \in UsbEnvs : /\ e.find # "error" /\ e.kernel = "ok" /\ e.configure = "ok"
                      /\ e.active = "ok" /\ e.has_in /\ e.has_out}

NewMouse ==
    /\ \E debug \in BOOLEAN, env \in FacadeEnvs : Construct(debug, env)
    /\ UNCHANGED <<mainVars, enc>>

\* a PulsarMouse made with any device behaviour
NewMouseAnyDevice ==
    /\ \E debug \in BOOLEAN, env \in UsbEnvs : Construct(debug, env)
    /\ UNCHANGED <<mainVars, enc>>

CallSetDpi ==
    /\ Ready
    /\ \E dpi \in DpiArgs, stage \in StageArgs, wr \in WriteOutcomes, io \in IoOutcomes :
            set_dpi(dpi, stage, wr, io)
    /\ Called

CallSetPollingRate ==
    /\ Ready
    /\ \E rate \in RateArgs, wr \in WriteOutcomes, io \in IoOutcomes :
            set_polling_rate(rate, wr, io)
    /\ Called

CallSetLiftoffDistance ==
    /\ Ready
    /\ \E distance \in DistanceArgs, wr \in WriteOutcomes, io \in IoOutcomes :
            set_liftoff_distance(distance, wr, io)
    /\ Called

CallSetButtonMapping ==
    /\ Ready
    /\ \E button \in ButtonArgs, action_name \in ActionArgs,
          wr \in WriteOutcomes, io \in IoOutcomes :
            set_button_mapping(button, action_name, wr, io)
    /\ Called

CallSetMotionSync ==
    /\ Ready
    /\ \E enabled \in BOOLEAN, wr \in WriteOutcomes, io \in IoOutcomes :
            set_motion_sync(enabled, wr, io)
    /\ Called

CallSetPowerSaving ==
    /\ Ready
    /\ \E idle_time \in IdleArgs, threshold \in ThresholdArgs,
          wr \in WriteOutcomes, io \in IoOutcomes :
            set_power_saving(idle_time, threshold, wr, io)
    /\ Called

CallSaveToProfile ==
    /\ Ready
    /\ \E profile_num \in ProfileNumArgs, wr \in WriteOutcomes, io \in IoOutcomes :
            save_to_profile(profile_num, wr, io)
    /\ Called

CallGetDeviceInfo ==
    /\ Ready
    /\ \E wr \in WriteOutcomes, rd \in ReadOutcomes : get_device_info(wr, rd)
    /\ Called

\* send_command called directly on the PulsarMouse, with any of the commands
CommandArgs == {CMD_GET_INFO, CMD_GET_SETTINGS, CMD_SET_POLLING}

\* mouse.send_command(command, expect_response) and what it returned
send_command_call(command, expect_response, wr, rd) ==
    LET r == send_command(session, command, expect_response, wr, rd) IN
    /\ last' = [op |-> "send_command", raised |-> "none", steps |-> <<"send">>,
                sent |-> <<command>>, writes |-> r.writes,
                delivered |-> r.delivered, reads |-> r.reads,
                response |-> r.response, saved |-> "none"]
    /\ UNCHANGED <<config, heap, disk, templates>>

CallSendCommand ==
    /\ Ready
    /\ \E command \in CommandArgs, expect_response \in BOOLEAN,
          wr \in WriteOutcomes, rd \in ReadOutcomes :
            send_command_call(command, expect_response, wr, rd)
    /\ Called

CallShowCurrentSettings ==
    /\ Ready
    /\ show_current_settings
    /\ Called

CallCopyProfile ==
    /\ Ready
    /\ \E source_id \in ProfileIdArgs, target_id \in ProfileIdArgs :
            copy_profile(source_id, target_id)
    /\ Called

CallResetProfile ==
    /\ Ready
    /\ \E profile_id \in ProfileIdArgs : reset_profile(profile_id)
    /\ Called

Next ==
    \/ NewMouse
    \/ CallSetDpi
    \/ CallSetPollingRate
    \/ CallSetLiftoffDistance
    \/ CallSetButtonMapping
    \/ CallSetMotionSync
    \/ CallSetPowerSaving
    \/ CallSaveToProfile
    \/ CallGetDeviceInfo
    \/ CallShowCurrentSettings
    \/ CallCopyProfile
    \/ CallResetProfile

Spec == Init /\ [][Next]_vars

\* the device session under every behaviour of the USB library
SessionNext ==
    \/ NewMouseAnyDevice
    \/ CallSetDpi
    \/ CallSetMotionSync
    \/ CallSaveToProfile
    \/ CallGetDeviceInfo
    \/ CallSendCommand

SpecSession == Init /\ [][SessionNext]_vars

\* the process ends.  The next PulsarMouse is made by a new process, which
\* finds the file as this one left it; config and heap go on showing the
\* document the ended process held until the new one has loaded its own
Exit ==
    /\ pc = "ready"
    /\ pc' = "new"
    /\ session' = NoSession(FALSE)
    /\ conn' = NotConnected
    /\ UNCHANGED <<config, heap, disk, last, nops, mainVars, enc, templates>>

\* the file a first process finds: none, one that cannot be opened, one
\* that holds no JSON
StoreDisks ==
    {[state |-> "missing", doc |-> <<>>],
     [state |-> "unreadable", doc |-> <<>>],
     [state |-> "invalid", doc |-> <<>>]}

StoreInit ==
    /\ Fresh
    /\ disk \in StoreDisks
    /\ mainPc = "idle"
    /\ args = NoArgs

\* the document store across processes: every call is followed by a save,
\* every new process starts with a load
StoreNext ==
    \/ NewMouse
    \/ Exit
    \/ CallSetPollingRate
    \/ CallSetPowerSaving
    \/ CallSetLiftoffDistance
    \/ CallSetButtonMapping
    \/ CallSetMotionSync
    \/ CallSaveToProfile
    \/ CallCopyProfile

SpecStore == StoreInit /\ [][StoreNext]_vars

\* the setters of plain values under a caller that passes rates, idle times
\* and thresholds below, inside and above what the device takes
WideRateArgs == {-10, 125, 188, 3000, 6000, 9000}
WideIdleArgs == {20, 60, 1000}
WideThresholdArgs == {<<>>, <<3>>, <<12>>, <<25>>}

CallSetPollingRateWide ==
    /\ Ready
    /\ \E rate \in WideRateArgs, wr \in WriteOutcomes, io \in IoOutcomes :
            set_polling_rate(rate, wr, io)
    /\ Called

CallSetPowerSavingWide ==
    /\ Ready
    /\ \E idle_time \in WideIdleArgs, threshold \in WideThresholdArgs,
          wr \in WriteOutcomes, io \in IoOutcomes :
            set_power_saving(idle_time, threshold, wr, io)
    /\ Called

ValuesNext ==
    \/ NewMouse
    \/ CallSetPollingRateWide
    \/ CallSetPowerSavingWide
    \/ CallSaveToProfile
    \/ CallCopyProfile
    \/ CallResetProfile

SpecValues == Init /\ [][ValuesNext]_vars

-----------------------------------------------------------------------------
(* The standalone encoders (controllers/) *)

\* create_dpi_command(dpi, stage): the DPI is clamped and rounded as in
\* set_dpi, the stage is written into the copy of the template as it is given
create_dpi_command(dpi, stage) ==
    LET value == NormalizeDpi(dpi)
    IN  [templates.CMD_SET_DPI EXCEPT ![2] = stage,
                            ![3] = HighByte(value),
                            ![4] = LowByte(value)]

\* create_polling_rate_command(rate): the nearest supported rate, as its
\* index in the protocol
create_polling_rate_command(rate) ==
    LET rate1 == IF rate \in SeqToSet(POLLING_RATES) THEN rate
                 ELSE Closest(POLLING_RATES, rate)
    IN  [templates.CMD_SET_POLLING EXCEPT ![2] = IndexOf(POLLING_RATES, rate1)]

\* create_liftoff_command(distance), the distance in tenths of a millimetre
create_liftoff_command(distance) ==
    LET distance1 == IF distance \in SeqToSet(LIFT_OFF_DISTANCE) THEN distance
                     ELSE Closest(LIFT_OFF_DISTANCE, distance)
    IN  [templates.CMD_SET_LIFTOFF EXCEPT ![2] = IndexOf(LIFT_OFF_DISTANCE, distance1)]

\* create_button_command(button, action_name): None for a button outside
\* 1..5 or an action that BUTTON_ACTIONS does not have
create_button_command(button, action_name) ==
    IF ~(1 <= button /\ button <= 5) THEN <<>>
    ELSE IF action_name \notin DOMAIN BUTTON_ACTIONS THEN <<>>
    ELSE <<[templates.CMD_SET_BUTTON EXCEPT ![2] = button,
                                            ![3] = BUTTON_ACTIONS[action_name]]>>

create_motion_sync_command(enabled) ==
    [templates.CMD_SET_MOTION_SYNC EXCEPT ![2] = IF enabled THEN 1 ELSE 0]

\* create_power_saving_command(idle_time, low_battery_threshold=None)
create_power_saving_command(idle_time, low_battery_threshold) ==
    LET idle1 == Max(30, Min(900, idle_time))
        command1 == [templates.CMD_SET_POWER EXCEPT ![2] = LowByte(idle1),
                                                    ![3] = HighByte(idle1)]
    IN  IF low_battery_threshold # <<>>
        THEN [command1 EXCEPT ![4] = Max(5, Min(20, low_battery_threshold[1]))]
        ELSE command1

EncoderDpiArgs == {-5, 49, 50, 55, 800, 1605, 1614, 31999, 32000, 40000}
EncoderStageArgs == {-1, 0, 1, 2, 3, 4, 5, 6, 7, 8, 256}

CallCreateDpiCommand ==
    /\ \E dpi \in EncoderDpiArgs, stage \in EncoderStageArgs :
            enc' = [fn |-> "create_dpi_command", args |-> <<dpi, stage>>,
                    result |-> <<create_dpi_command(dpi, stage)>>]
    /\ UNCHANGED <<pc, session, conn, config, heap, disk, last, nops, mainVars, templates>>

EncodersNext == CallCreateDpiCommand

SpecEncoders == Init /\ [][EncodersNext]_vars

-----------------------------------------------------------------------------
(* main() (pulsar_x2_macos.py) *)

\* a command line: each option is absent (<<>>) or given with a value; the
\* three switches are given or not; joined is whether an option and its
\* value are written as one word (--dpi=800) or as two (--dpi 800)
CommandLines ==
    [debug : BOOLEAN,
     dpi : {<<>>, <<1605>>},
     stage : {<<>>, <<3>>},
     polling : {<<>>, <<500>>},
     liftoff : {<<>>, <<7>>},
     motion_sync : {<<>>, <<"off">>},
     idle_time : {<<>>, <<60>>},
     battery_threshold : {<<>>, <<15>>},
     profile : {<<>>, <<2>>},
     info : BOOLEAN,
     settings : BOOLEAN,
     joined : BOOLEAN]

ValueOptions(c) ==
    {o \in {"dpi", "stage", "polling", "liftoff", "motion_sync", "idle_time",
            "battery_threshold", "profile"} : c[o] # <<>>}

Switches(c) == {o \in {"info", "settings"} : c[o]}

\* len(sys.argv): the program name and the words of the command line
Argc(c) ==
    1 + (IF c.debug THEN 1 ELSE 0) + Cardinality(Switches(c))
      + Cardinality(ValueOptions(c)) * (IF c.joined THEN 1 ELSE 2)

\* parse_arguments(): an option that is absent is None, except stage, whose
\* default is 1
parse_arguments(c) == [c EXCEPT !.stage = IF c.stage = <<>> THEN <<1>> ELSE c.stage]

\* Python truth of an optional number: None and 0 are false
Truthy(v) == v # <<>> /\ v[1] # 0

\* all(arg is None or (isinstance(arg, bool) and arg is False)
\*     for arg in vars(args).values())
AllUnset(ns) ==
    /\ \A o \in {"dpi", "stage", "polling", "liftoff", "motion_sync", "idle_time",
                 "battery_threshold", "profile"} : ns[o] = <<>>
    /\ \A o \in {"debug", "info", "settings"} : ns[o] = FALSE

InMain(at) == mainPc = at /\ exitCode = -1

\* a step of main() that calls the facade: an exception of the call is
\* caught by main(), which then returns 1
Then(next) ==
    /\ IF last'.raised # "none"
       THEN mainPc' = "exit" /\ exitCode' = 1
       ELSE mainPc' = next /\ exitCode' = exitCode
    /\ UNCHANGED <<pc, session, conn, nops, args, interactive, enc>>

Skip(next) ==
    /\ mainPc' = next
    /\ UNCHANGED <<pc, session, conn, config, heap, disk, last, nops, args,
                   interactive, exitCode, enc, templates>>

\* args = parse_arguments(); mouse = PulsarMouse(debug_mode=args.debug)
MainStart ==
    /\ InMain("start")
    /\ \E env \in FacadeEnvs : Construct(args.argv.debug, env)
    /\ args' = [args EXCEPT !.ns = parse_arguments(args.argv)]
    /\ mainPc' = "dpi"
    /\ UNCHANGED <<interactive, exitCode, enc>>

MainDpi ==
    /\ InMain("dpi")
    /\ IF Truthy(args.ns.dpi)
       THEN /\ \E wr \in WriteOutcomes, io \in IoOutcomes :
                    set_dpi(args.ns.dpi[1], args.ns.stage, wr, io)
            /\ Then("polling")
       ELSE Skip("polling")

MainPolling ==
    /\ InMain("polling")
    /\ IF Truthy(args.ns.polling)
       THEN /\ \E wr \in WriteOutcomes, io \in IoOutcomes :
                    set_polling_rate(args.ns.polling[1], wr, io)
            /\ Then("liftoff")
       ELSE Skip("liftoff")

MainLiftoff ==
    /\ InMain("liftoff")
    /\ IF Truthy(args.ns.liftoff)
       THEN /\ \E wr \in WriteOutcomes, io \in IoOutcomes :
                    set_liftoff_distance(args.ns.liftoff[1], wr, io)
            /\ Then("motion_sync")
       ELSE Skip("motion_sync")

MainMotionSync ==
    /\ InMain("motion_sync")
    /\ IF args.ns.motion_sync # <<>>
       THEN /\ \E wr \in WriteOutcomes, io \in IoOutcomes :
                    set_motion_sync(args.ns.motion_sync[1] = "on", wr, io)
            /\ Then("power")
       ELSE Skip("power")

MainPower ==
    /\ InMain("power")
    /\ IF Truthy(args.ns.idle_time)
       THEN /\ \E wr \in WriteOutcomes, io \in IoOutcomes :
                    set_power_saving(args.ns.idle_time[1],
                        IF Truthy(args.ns.battery_threshold)
                        THEN args.ns.battery_threshold ELSE <<>>, wr, io)
            /\ Then("profile")
       ELSE Skip("profile")

\* a main() that switches to the profile of --profile before it applies the
\* setters, and has nothing left to do where the profile step was
MainProfile_BeforeSetters ==
    \/ /\ InMain("dpi")
       /\ Truthy(args.ns.profile)
       /\ config.active_profile # str(args.ns.profile[1])
       /\ \E wr \in WriteOutcomes, io \in IoOutcomes :
                save_to_profile(args.ns.profile[1], wr, io)
       /\ UNCHANGED <<pc, session, conn, nops, mainVars, enc>>
    \/ /\ InMain("profile")
       /\ Skip("info")

MainProfile ==
    /\ InMain("profile")
    /\ IF Truthy(args.ns.profile)
       THEN /\ \E wr \in WriteOutcomes, io \in IoOutcomes :
                    save_to_profile(args.ns.profile[1], wr, io)
            /\ Then("info")
       ELSE Skip("info")

MainInfo ==
    /\ InMain("info")
    /\ IF args.ns.info
       THEN /\ \E wr \in WriteOutcomes, rd \in ReadOutcomes : get_device_info(wr, rd)
            /\ Then("settings")
       ELSE Skip("settings")

MainSettings ==
    /\ InMain("settings")
    /\ IF args.ns.settings
       THEN show_current_settings /\ Then("mode")
       ELSE Skip("mode")

\* the last statement of main(): the interactive menu is entered when every
\* value of the namespace is None or False, or when the debug flag is set and
\* the command line has exactly one word; then main() returns 0
MainMode ==
    /\ InMain("mode")
    /\ interactive' = (AllUnset(args.ns) \/ (args.ns.debug /\ Argc(args.argv) = 2))
    /\ mainPc' = "exit"
    /\ exitCode' = 0
    /\ UNCHANGED <<pc, session, conn, config, heap, disk, last, nops, args, enc, templates>>

\* the document a process finds on disk: none, or the one an earlier run
\* with --profile 2 left behind
StartDisks ==
    {[state |-> "missing", doc |-> <<>>],
     [state |-> "valid",
      doc |-> <<json_dump([create_default_config EXCEPT !.active_profile = "2"])>>]}

MainInit ==
    /\ Fresh
    /\ disk \in StartDisks
    /\ mainPc = "start"
    /\ \E c \in CommandLines :
          /\ Cardinality(ValueOptions(c)) + Cardinality(Switches(c)) <= MaxFlags
          /\ args = [argv |-> c, ns |-> <<>>]

MainNext ==
    \/ MainStart
    \/ MainDpi
    \/ MainPolling
    \/ MainLiftoff
    \/ MainMotionSync
    \/ MainPower
    \/ MainProfile
    \/ MainInfo
    \/ MainSettings
    \/ MainMode

SpecMain == MainInit /\ [][MainNext]_vars

-----------------------------------------------------------------------------
(* Properties *)

Setters ==
    {"set_dpi", "set_polling_rate", "set_liftoff_distance", "set_button_mapping",
     "set_motion_sync", "set_power_saving"}

\* the value of profile p in the document (c, h), every reference followed
ProfileValue(c, h, p) == Deref(h, c.profiles[p])

\* C1: after copy_profile, a setter that changes the active profile leaves
\* the value of every other profile as it was: source and copy share no
\* nested mapping.
C1_CopiedProfilesIndependent ==
    [][\A p \in DOMAIN config.profiles :
          (last'.op \in Setters /\ last'.raised = "none" /\ p # config.active_profile)
              => (p \in DOMAIN config'.profiles
                  /\ ProfileValue(config', heap', p) = ProfileValue(config, heap, p))]_vars

\* C2: main() enters the interactive menu exactly when the command line has
\* no option and no switch other than the debug flag.
C2_InteractiveIffNoFlags ==
    (mainPc = "exit" /\ exitCode = 0)
        => (interactive <=> (ValueOptions(args.argv) = {} /\ Switches(args.argv) = {}))

\* C3: no setter call and no show_current_settings call raises, also when
\* active_profile names a profile that does not exist.
C3_StaleActiveProfileTolerated ==
    last.op \in Setters \cup {"show_current_settings"} => last.raised = "none"

\* the multiple of 10 nearest to x, a value halfway between two going up
\* (1605 -> 1610)
NearestTenHalfUp(x) == ((x + 5) \div 10) * 10

\* C4: set_dpi(d, s) stores the multiple of 10 nearest to clamp(d, 50, 32000),
\* a value halfway between two multiples going to the upper one, so that
\* set_dpi(1605, 2) stores 1610.
C4_DpiRoundedHalfUp ==
    [][\A dpi \in DpiArgs, stage \in StageArgs, wr \in WriteOutcomes, io \in IoOutcomes :
          (HasActive /\ stage # <<>> /\ stage[1] \in 1..6 /\ set_dpi(dpi, stage, wr, io))
              => heap'.dpi[Active.dpi_stages][str(stage[1])]
                    = NearestTenHalfUp(Max(50, Min(32000, dpi)))]_vars

C6_ButtonMappingAllOrNothing ==
    [][\A button \in ButtonArgs, action_name \in ActionArgs,
          wr \in WriteOutcomes, io \in IoOutcomes :
          set_button_mapping(button, action_name, wr, io)
              => IF button \in 1..5 /\ action_name \in ActionNames
                 THEN /\ config'.active_profile \in DOMAIN config'.profiles
                      /\ heap'.btn[config'.profiles[config'.active_profile].buttons][str(button)]
                            = [action |-> action_name, code |-> BUTTON_ACTIONS[action_name]]
                      /\ Len(last'.sent) = 1
                      /\ last'.saved # "none"
                 ELSE /\ config' = config /\ heap' = heap /\ disk' = disk
                      /\ last'.sent = <<>>
                      /\ last'.saved = "none"]_vars

\* C7: a setter call that passed validation and did not raise has updated
\* the document, then handed one command to send_command, then called
\* save_config, whatever became of the command; when the save succeeded the
\* file holds the updated document.
C7_MutateSendPersist ==
    (last.op \in Setters /\ last.raised = "none" /\ last.sent # <<>>)
        => /\ last.steps = <<"mutate", "send", "persist">>
           /\ last.saved \in {"True", "False"}
           /\ last.saved = "True" =>
                (disk.state = "valid" /\ disk.doc[1] = Serialize(config, heap))

\* a setter ran on a live session, its command did not reach the device (no
\* connection, or the write failed), and the file holds the new value
C7_Witness ==
    /\ last.op = "set_polling_rate" /\ last.raised = "none"
    /\ ~session.debug_mode /\ ~last.delivered
    /\ last.saved = "True"
    /\ disk.state = "valid"
    /\ disk.doc[1].profiles[disk.doc[1].active_profile].polling_rate = 500

\* C8: in live mode a buffer is handed to device.write only when the session
\* reached EndpointsResolved.
C8_WriteOnlyWhenEndpointsResolved ==
    last.writes # <<>> => conn.reached = "EndpointsResolved"

\* C9: after a failed step of connect() the session holds what it held
\* before that step: no device handle after a failed configuration, no
\* endpoint after a failed endpoint discovery.
C9_FailedStepLeavesPriorState ==
    (pc = "ready" /\ conn.failed \in {"find", "configure", "endpoints"})
        => /\ conn.reached = "Disconnected" => session = NoSession(FALSE)
           /\ conn.reached = "Connected" =>
                session = [NoSession(FALSE) EXCEPT !.device = TRUE]

\* C10: a failed endpoint discovery reaches the caller of connect() as an
\* exception, not as the result False.
C10_EndpointFailureRaised ==
    conn.failed = "endpoints" => conn.result = "raised"

\* C11: in debug mode connect() is never called and no call of the facade
\* hands a buffer to device.write or calls device.read; send_command then
\* returns eight zero bytes when an answer is expected and None when not,
\* whatever the command.
C11_DebugNeverTouchesUsb ==
    /\ [](session.debug_mode =>
            (conn.result = "not_called" /\ last.writes = <<>> /\ last.reads = 0))
    /\ [][\A command \in CommandArgs, expect_response \in BOOLEAN,
             wr \in WriteOutcomes, rd \in ReadOutcomes :
            (session.debug_mode /\ send_command_call(command, expect_response, wr, rd))
                => IF expect_response
                   THEN /\ Len(last'.response) = 1
                        /\ Len(last'.response[1]) = 8
                        /\ \A i \in 1..8 : last'.response[1][i] = 0
                   ELSE last'.response = <<>>]_vars

\* a debug session was asked for an answer and made one up
C11_Witness ==
    /\ session.debug_mode
    /\ last.op = "send_command"
    /\ last.response = <<ZeroReply>>

\* the outcomes of device.write and of save_config that a completed setter
\* call met, read off its observation: a command that was not delivered is
\* observed the same whether the write failed or was never made
WriteOf(l) == IF l.delivered THEN "ok" ELSE "error"
IoOf(l) == IF l.saved = "True" THEN "ok" ELSE "fail"

\* C12: set_polling_rate(r) stores a member of POLLING_RATES that no other
\* member is nearer to r than, and the lower of two equally near members
\* (3000 gives 2000); the polling_rate of every profile is a member.
C12_PollingRateNearest ==
    /\ [](\A p \in DOMAIN config.profiles :
            config.profiles[p].polling_rate \in {125, 250, 500, 1000, 2000, 4000, 8000})
    /\ [][last'.op = "set_polling_rate" =>
            \A rate \in WideRateArgs :
                (HasActive /\ set_polling_rate(rate, WriteOf(last'), IoOf(last'))) =>
                    LET stored == config'.profiles[config.active_profile].polling_rate IN
                    \A other \in {125, 250, 500, 1000, 2000, 4000, 8000} :
                        \/ Abs(stored - rate) < Abs(other - rate)
                        \/ (Abs(stored - rate) = Abs(other - rate) /\ stored <= other)]_vars

\* 3000 was asked for and 2000 is stored
C12_Witness ==
    /\ last.op = "set_polling_rate" /\ last.raised = "none"
    /\ last.sent = <<[CMD_SET_POLLING EXCEPT ![2] = 4]>>
    /\ HasActive /\ Active.polling_rate = 2000

\* x brought into lo..hi
Clamped(lo, hi, x) == IF x < lo THEN lo ELSE IF x > hi THEN hi ELSE x

\* C13: set_power_saving(idle_time, threshold) stores idle_time brought into
\* 30..900 and threshold brought into 5..20 (1000 and 25 give 900 and 20);
\* every power_saving mapping holds an idle_time of 30..900 and a
\* low_battery_threshold of 5..20.
C13_PowerSavingClamped ==
    /\ [](\A a \in DOMAIN heap.pwr :
            /\ heap.pwr[a].idle_time \in 30..900
            /\ heap.pwr[a].low_battery_threshold \in 5..20)
    /\ [][last'.op = "set_power_saving" =>
            \A idle_time \in WideIdleArgs, threshold \in WideThresholdArgs \ {<<>>} :
                (HasActive /\ set_power_saving(idle_time, threshold,
                                               WriteOf(last'), IoOf(last'))) =>
                    heap'.pwr[Active.power_saving] =
                        [idle_time |-> Clamped(30, 900, idle_time),
                         low_battery_threshold |-> Clamped(5, 20, threshold[1])]]_vars

\* a threshold above 20 was given and 20 is stored, with an idle time of 900
C13_Witness ==
    /\ last.op = "set_power_saving" /\ last.raised = "none"
    /\ HasActive
    /\ heap.pwr[Active.power_saving] = [idle_time |-> 900, low_battery_threshold |-> 20]
    /\ last.sent[1][4] = 20

\* C14: set_power_saving(idle_time) without a threshold changes, in the
\* active profile, only power_saving.idle_time: low_battery_threshold keeps
\* the value it had and byte 3 of the command sent is 0.
C14_OmittedThresholdKept ==
    [][last'.op = "set_power_saving" =>
        \A idle_time \in WideIdleArgs :
            (HasActive /\ set_power_saving(idle_time, <<>>, WriteOf(last'), IoOf(last'))) =>
                /\ config' = config
                /\ ProfileValue(config', heap', config.active_profile) =
                        [ProfileValue(config, heap, config.active_profile) EXCEPT
                            !.power_saving.idle_time = Clamped(30, 900, idle_time)]
                /\ heap'.pwr[Active.power_saving].low_battery_threshold =
                        heap.pwr[Active.power_saving].low_battery_threshold
                /\ last'.sent[1][4] = 0]_vars

\* an earlier call stored a threshold that is not the default, and the last
\* call, made without a threshold, left it there
C14_Witness ==
    /\ last.op = "set_power_saving" /\ last.raised = "none"
    /\ last.sent[1][4] = 0
    /\ HasActive
    /\ heap.pwr[Active.power_saving].low_battery_threshold = 20

\* C15: when the last call of a process saved its document and save_config
\* returned True, the document the next process loads is equal to it.
C15_SaveLoadRoundTrip ==
    [][(pc = "new" /\ pc' = "ready" /\ last.saved = "True")
            => Document(config', heap') = Document(config, heap)]_vars

\* a process copied profile "1" to "2", remapped button 3 and saved; the
\* next process has loaded the file: only a load gives two profiles button
\* mappings of their own that both hold the remapped button
C15_Witness ==
    /\ pc = "ready" /\ last.saved = "True"
    /\ "2" \in DOMAIN config.profiles
    /\ config.profiles["1"].buttons # config.profiles["2"].buttons
    /\ heap.btn[config.profiles["1"].buttons]["3"].action = "DPI Hoch"
    /\ heap.btn[config.profiles["2"].buttons]["3"].action = "DPI Hoch"
    /\ heap.btn[config.profiles["2"].buttons]["4"].action = "Zurück"

\* C16: a process that finds no file, a file it cannot open or a file without
\* JSON starts with the default document, and the first save that succeeds
\* leaves a file holding the serialisation of the document in memory.
C16_LoadFallsBackToDefault ==
    /\ [][(pc = "new" /\ pc' = "ready" /\ disk.state # "valid")
            => Document(config', heap') = create_default_config]_vars
    /\ [][(disk.state # "valid" /\ last'.saved = "True" /\ nops' = nops + 1)
            => (disk'.state = "valid" /\ disk'.doc = <<Serialize(config', heap')>>)]_vars

\* a process has started on a file that cannot be opened or holds no JSON
C16_Witness ==
    /\ pc = "ready" /\ nops = 0
    /\ disk.state \in {"unreadable", "invalid"}
    /\ Document(config, heap) = create_default_config

\* C17: a save that fails is reported by the result False, never by an
\* exception; set_motion_sync(b) whose save fails leaves motion_sync = b in
\* the document in memory, and the file as it was.
C17_FailedSaveKeepsMutation ==
    /\ [](last.saved = "False" => last.raised = "none")
    /\ [][last'.op = "set_motion_sync" =>
            \A enabled \in BOOLEAN :
                (HasActive /\ set_motion_sync(enabled, WriteOf(last'), "fail")) =>
                    /\ last'.raised = "none" /\ last'.saved = "False"
                    /\ config' = [config EXCEPT
                                    !.profiles[config.active_profile].motion_sync = enabled]
                    /\ heap' = heap
                    /\ disk' = disk]_vars

\* set_motion_sync(False) was called on a document with motion_sync True,
\* its save failed, and the document in memory holds False while the file
\* does not
C17_Witness ==
    /\ last.op = "set_motion_sync" /\ last.saved = "False"
    /\ HasActive /\ Active.motion_sync = FALSE
    /\ disk.state = "valid" => disk.doc[1] # Serialize(config, heap)

\* C18: set_motion_sync(b) called right after set_motion_sync(b) changes
\* neither the document in memory nor the file, the second save having the
\* outcome of the first or failing after a first that succeeded.
C18_MotionSyncIdempotent ==
    [][(/\ last.op = "set_motion_sync" /\ last.raised = "none"
        /\ last'.op = "set_motion_sync" /\ nops' = nops + 1
        /\ HasActive
        /\ set_motion_sync(Active.motion_sync, WriteOf(last'), IoOf(last'))
        /\ ~(last.saved = "False" /\ last'.saved = "True"))
            => (config' = config /\ heap' = heap /\ disk' = disk)]_vars

\* two calls were made, the last one set_motion_sync(False) with a save that
\* succeeded, and memory and file hold the default document with
\* motion_sync False
C18_Witness ==
    /\ pc = "ready" /\ nops = 2
    /\ last.op = "set_motion_sync" /\ last.saved = "True"
    /\ Document(config, heap) =
            [create_default_config EXCEPT !.profiles["1"].motion_sync = FALSE]
    /\ disk.state = "valid" /\ disk.doc[1] = Serialize(config, heap)

\* C19: byte 1 of the buffer create_dpi_command(dpi, s) returns is s when s
\* is one of 1..6 and 1 for every other s.
C19_EncoderStageValidated ==
    enc.fn = "create_dpi_command" =>
        enc.result[1][2] = IF enc.args[2] \in 1..6 THEN enc.args[2] ELSE 1

\* C20: set_dpi(dpi, stage) does not fail; it writes the DPI to the stage
\* active_dpi_stage names when no stage is given, to the given stage when
\* that is one of 1..6 and to stage 1 otherwise, leaves the other stages as
\* they were, and byte 1 of the command it sends is the stage written.
C20_SetDpiStageWritten ==
    [][last'.op = "set_dpi" =>
        \A dpi \in DpiArgs, stage \in StageArgs :
            set_dpi(dpi, stage, WriteOf(last'), IoOf(last')) =>
                /\ last'.raised = "none"
                /\ LET written == IF stage = <<>> THEN Active.active_dpi_stage
                                   ELSE IF stage[1] \in 1..6 THEN stage[1] ELSE 1
                   IN  /\ heap'.dpi[Active.dpi_stages] =
                                [heap.dpi[Active.dpi_stages] EXCEPT
                                    ![str(written)] = NormalizeDpi(dpi)]
                       /\ last'.sent[1][2] = written]_vars

\* C21: save_to_profile(n) with n outside 1..4 hands nothing to send_command,
\* leaves the document as it was and saves nothing; with n in 1..4 it hands
\* over the save-profile command with n in byte 1, sets active_profile to
\* str(n), calls save_config, and leaves the profiles mapping as it was.
C21_SaveToProfileFrame ==
    [][last'.op = "save_to_profile" =>
          \A n \in ProfileNumArgs :
              save_to_profile(n, WriteOf(last'), IoOf(last')) =>
                  IF 1 <= n /\ n <= 4
                  THEN /\ Len(last'.sent) = 1
                       /\ last'.sent[1][1] = 240 /\ last'.sent[1][2] = n
                       /\ config'.active_profile = str(n)
                       /\ config'.profiles = config.profiles /\ heap' = heap
                       /\ last'.saved \in {"True", "False"}
                       /\ last'.saved = "True" =>
                            (disk'.state = "valid"
                             /\ json_load(disk'.doc[1]) =
                                    [Document(config, heap) EXCEPT
                                        !.active_profile = str(n)])
                  ELSE /\ last'.sent = <<>> /\ last'.saved = "none"
                       /\ config' = config /\ heap' = heap /\ disk' = disk]_vars

\* save_to_profile(2) ran on a document that has no profile 2: the file and
\* the document name profile 2 as active and neither has it
C21_Witness ==
    /\ last.op = "save_to_profile" /\ last.saved = "True"
    /\ last.sent # <<>> /\ last.sent[1][2] = 2
    /\ config.active_profile = "2" /\ "2" \notin DOMAIN config.profiles
    /\ disk.state = "valid" /\ disk.doc[1].active_profile = "2"
    /\ "2" \notin DOMAIN disk.doc[1].profiles

\* C22: reset_profile with an id the document does not have, and
\* copy_profile with a source it does not have, leave the document as it
\* was; reset_profile with an id it has makes that profile equal to profile
\* "1" of the default document and changes no other profile, nor the set of
\* profiles, nor active_profile.
C22_ResetAndCopyGuarded ==
    /\ [][last'.op = "copy_profile" =>
            \A source_id \in ProfileIdArgs, target_id \in ProfileIdArgs :
                (source_id \notin DOMAIN config.profiles
                 /\ copy_profile(source_id, target_id)) =>
                    (config' = config /\ heap' = heap /\ disk' = disk)]_vars
    /\ [][last'.op = "reset_profile" =>
            \A profile_id \in ProfileIdArgs :
                reset_profile(profile_id) =>
                    IF profile_id \notin DOMAIN config.profiles
                    THEN config' = config /\ heap' = heap /\ disk' = disk
                    ELSE /\ ProfileValue(config', heap', profile_id) =
                                create_default_config.profiles["1"]
                         /\ DOMAIN config'.profiles = DOMAIN config.profiles
                         /\ config'.active_profile = config.active_profile
                         /\ \A p \in DOMAIN config.profiles \ {profile_id} :
                                ProfileValue(config', heap', p) =
                                    ProfileValue(config, heap, p)]_vars

\* profile 2, a copy of a profile 1 that polls at 125 Hz, was reset: it has
\* the default values and profile 1 still polls at 125 Hz
C22_Witness ==
    /\ last.op = "reset_profile"
    /\ DOMAIN config.profiles = {"1", "2"}
    /\ config.profiles["1"].polling_rate = 125
    /\ ProfileValue(config, heap, "2") = create_default_config.profiles["1"]

\* C23: in live mode send_command never raises and calls device.read only
\* after a device.write that returned: a write that fails gives None with no
\* read, expect_response = False gives None right after the write with no
\* read, and a read that times out or fails gives None.
C23_SendCommandNeverRaises ==
    /\ [](~session.debug_mode =>
            /\ last.reads > 0 => (last.delivered /\ Len(last.writes) = 1)
            /\ last.op = "send_command" => last.raised = "none")
    /\ [][(last'.op = "send_command" /\ ~session.debug_mode) =>
            \A expect_response \in BOOLEAN, wr \in WriteOutcomes, rd \in ReadOutcomes :
                send_command_call(last'.sent[1], expect_response, wr, rd) =>
                    /\ last'.raised = "none"
                    /\ wr = "error" => (last'.response = <<>> /\ last'.reads = 0)
                    /\ ~expect_response => (last'.response = <<>> /\ last'.reads = 0)
                    /\ rd \in {"timeout", "error"} => last'.response = <<>>
                    /\ last'.response # <<>> =>
                            (last'.delivered /\ last'.reads = 1 /\ expect_response)]_vars

\* a live session with both endpoints handed a command to device.write, the
\* write failed, and nothing was read
C23_Witness ==
    /\ last.op = "send_command" /\ ~session.debug_mode
    /\ session.device /\ session.ep_out /\ session.ep_in
    /\ Len(last.writes) = 1 /\ ~last.delivered
    /\ last.reads = 0 /\ last.response = <<>> /\ last.raised = "none"

\* C24: the command of set_dpi carries in bytes 2 and 3 the DPI value it
\* stored, high byte first: 256 * byte 2 + byte 3 is the value of the stage
\* named by byte 1 in dpi_stages of the active profile, each byte in 0..255.
C24_DpiBytesBigEndian ==
    (last.op = "set_dpi" /\ last.raised = "none" /\ last.sent # <<>>) =>
        LET command == last.sent[1] IN
        /\ HasActive
        /\ command[3] \in 0..255 /\ command[4] \in 0..255
        /\ 256 * command[3] + command[4] =
                heap.dpi[Active.dpi_stages][str(command[2])]
        /\ heap.dpi[Active.dpi_stages][str(command[2])] \in 50..32000

\* set_dpi(1614) stored 1610 and sent the bytes 6 and 74
C24_Witness ==
    /\ last.op = "set_dpi" /\ last.raised = "none"
    /\ last.sent[1][3] = 6 /\ last.sent[1][4] = 74
    /\ HasActive
    /\ heap.dpi[Active.dpi_stages][str(last.sent[1][2])] = 1610

\* C25: the nine command lists of the settings module hold, after any
\* sequence of facade calls, what they held at import: the opcode followed by
\* seven zeros; every operation writes its parameters into a copy.
C25_TemplatesKeepInitialValue ==
    /\ templates = CommandTemplates
    /\ \A name \in DOMAIN templates :
            /\ Len(templates[name]) = 8
            /\ \A k \in 2..8 : templates[name][k] = 0

\* three calls were made, the last a set_dpi that sent 32000 (bytes 125, 0)
\* for stage 2, and the list CMD_SET_DPI is still 0x20 and seven zeros
C25_Witness ==
    /\ nops = MaxOps
    /\ last.op = "set_dpi" /\ last.raised = "none"
    /\ last.sent[1][2] = 2 /\ last.sent[1][3] = 125
    /\ templates.CMD_SET_DPI = <<32, 0, 0, 0, 0, 0, 0, 0>>

\* C26: a setter that passed validation, or save_to_profile(n) with n in
\* 1..4, has called save_config before it returns; when that save succeeded
\* the document read back from the file equals the document in memory, with
\* every change made before the call.
C26_WriteThrough ==
    (last.op \in Setters \cup {"save_to_profile"}
     /\ last.raised = "none" /\ last.sent # <<>>) =>
        /\ last.steps[Len(last.steps)] = "persist"
        /\ last.saved # "none"
        /\ last.saved = "True" =>
                /\ disk.state = "valid"
                /\ json_load(disk.doc[1]) = Document(config, heap)

\* the third call, a set_button_mapping, saved a document with two profiles
\* in which profile 2 is the active one
C26_Witness ==
    /\ nops = MaxOps
    /\ last.op = "set_button_mapping" /\ last.saved = "True"
    /\ config.active_profile = "2" /\ DOMAIN config.profiles = {"1", "2"}
    /\ disk.state = "valid"
    /\ json_load(disk.doc[1]) = Document(config, heap)
    /\ Document(config, heap).profiles["2"].buttons["3"].action = "DPI Hoch"

\* the field of a profile that a setter is there to change
OwnField(op) ==
    CASE op = "set_dpi" -> "dpi_stages"
      [] op = "set_polling_rate" -> "polling_rate"
      [] op = "set_liftoff_distance" -> "liftoff_distance"
      [] op = "set_button_mapping" -> "buttons"
      [] op = "set_motion_sync" -> "motion_sync"
      [] op = "set_power_saving" -> "power_saving"

\* C27: a setter changes only its own field of the profile active_profile
\* names: every other field of that profile, the value of every other
\* profile, the set of profile ids and active_profile are as before the call.
C27_SetterChangesOwnFieldOnly ==
    [][(last'.op \in Setters /\ last'.raised = "none" /\ last'.sent # <<>>) =>
          /\ config'.active_profile = config.active_profile
          /\ DOMAIN config'.profiles = DOMAIN config.profiles
          /\ \A f \in DOMAIN Active \ {OwnField(last'.op)} :
                ProfileValue(config', heap', config.active_profile)[f] =
                    ProfileValue(config, heap, config.active_profile)[f]
          /\ \A p \in DOMAIN config.profiles \ {config.active_profile} :
                ProfileValue(config', heap', p) = ProfileValue(config, heap, p)]_vars

\* C28: the command a facade setter hands to send_command is the buffer the
\* standalone encoder of the same name returns for the same arguments, for
\* each of the six pairs, and the facade hands over nothing exactly when the
\* encoder returns None.
C28_FacadeMatchesEncoders ==
    [][/\ last'.op = "set_dpi" =>
            \A dpi \in DpiArgs, stage \in StageArgs \ {<<>>} :
                set_dpi(dpi, stage, WriteOf(last'), IoOf(last')) =>
                    last'.sent = <<create_dpi_command(dpi, stage[1])>>
       /\ last'.op = "set_polling_rate" =>
            \A rate \in RateArgs :
                set_polling_rate(rate, WriteOf(last'), IoOf(last')) =>
                    last'.sent = <<create_polling_rate_command(rate)>>
       /\ last'.op = "set_liftoff_distance" =>
            \A distance \in DistanceArgs :
                set_liftoff_distance(distance, WriteOf(last'), IoOf(last')) =>
                    last'.sent = <<create_liftoff_command(distance)>>
       /\ last'.op = "set_button_mapping" =>
            \A button \in ButtonArgs, action_name \in ActionArgs :
                set_button_mapping(button, action_name, WriteOf(last'), IoOf(last')) =>
                    last'.sent = create_button_command(button, action_name)
       /\ last'.op = "set_motion_sync" =>
            \A enabled \in BOOLEAN :
                set_motion_sync(enabled, WriteOf(last'), IoOf(last')) =>
                    last'.sent = <<create_motion_sync_command(enabled)>>
       /\ last'.op = "set_power_saving" =>
            \A idle_time \in IdleArgs, threshold \in ThresholdArgs :
                set_power_saving(idle_time, threshold, WriteOf(last'), IoOf(last')) =>
                    last'.sent = <<create_power_saving_command(idle_time, threshold)>>]_vars

\* the opcode of each facade operation that sends a command, and the
\* offsets after it that the operation may fill in
CommandFormat ==
    [set_dpi |-> [opcode |-> 32, offsets |-> {1, 2, 3}],
     set_polling_rate |-> [opcode |-> 48, offsets |-> {1}],
     set_liftoff_distance |-> [opcode |-> 64, offsets |-> {1}],
     set_button_mapping |-> [opcode |-> 80, offsets |-> {1, 2}],
     set_motion_sync |-> [opcode |-> 96, offsets |-> {1}],
     set_power_saving |-> [opcode |-> 112, offsets |-> {1, 2, 3}],
     save_to_profile |-> [opcode |-> 240, offsets |-> {1}],
     get_device_info |-> [opcode |-> 16, offsets |-> {}]]

\* C29: every buffer the facade hands to send_command has 8 elements, each
\* in 0..255; byte 0 is the opcode of the operation and every byte outside
\* the offsets the operation fills in is 0.
C29_CommandsWellFormed ==
    \A i \in 1..Len(last.sent) :
        LET command == last.sent[i] IN
        /\ last.op \in DOMAIN CommandFormat
        /\ Len(command) = 8
        /\ \A k \in 1..8 : command[k] \in 0..255
        /\ command[1] = CommandFormat[last.op].opcode
        /\ \A k \in 1..7 :
                k \notin CommandFormat[last.op].offsets => command[k + 1] = 0

\* set_power_saving(1000, 25) sent 0x70, the two bytes of 900, and 20
C29_Witness ==
    /\ last.op = "set_power_saving" /\ last.raised = "none"
    /\ last.sent = <<(<<112, 132, 3, 20, 0, 0, 0, 0>>)>>

\* the place of each step in main(), and the step that makes each call
MainRank ==
    [start |-> 0, dpi |-> 1, polling |-> 2, liftoff |-> 3, motion_sync |-> 4,
     power |-> 5, profile |-> 6, info |-> 7, settings |-> 8, mode |-> 9,
     exit |-> 10, idle |-> 11]

MainStepOf ==
    [set_dpi |-> "dpi", set_polling_rate |-> "polling",
     set_liftoff_distance |-> "liftoff", set_motion_sync |-> "motion_sync",
     set_power_saving |-> "power", save_to_profile |-> "profile",
     get_device_info |-> "info", show_current_settings |-> "settings"]

\* C30: one run of main() goes through its flags in the order dpi, polling,
\* liftoff, motion-sync, power saving, profile, info, settings, each call
\* made at its own step; active_profile is the one the start file names
\* (or "1") until the profile step, so the setters given together with
\* --profile change that profile and no other.
C30_FlagsInFixedOrder ==
    [][/\ MainRank[mainPc'] >= MainRank[mainPc]
       /\ last'.op # last.op =>
            (last'.op \in DOMAIN MainStepOf /\ mainPc = MainStepOf[last'.op])
       /\ mainPc = "start" =>
            config'.active_profile =
                IF disk.state = "valid" THEN json_load(disk.doc[1]).active_profile
                ELSE "1"
       /\ mainPc \notin {"start", "profile"} =>
            config'.active_profile = config.active_profile
       /\ (mainPc # "start" /\ last'.op \in Setters) =>
            /\ DOMAIN config'.profiles = DOMAIN config.profiles
            /\ \A p \in DOMAIN config.profiles \ {config.active_profile} :
                    ProfileValue(config', heap', p) = ProfileValue(config, heap, p)]_vars

\* --dpi 1605 --profile 2 on a fresh installation: stage 1 of profile 1
\* holds 1600 and active_profile names profile 2
C30_Witness ==
    /\ mainPc = "exit" /\ exitCode = 0
    /\ args.argv.dpi = <<1605>> /\ args.argv.profile = <<2>>
    /\ last.op = "save_to_profile"
    /\ config.active_profile = "2"
    /\ DOMAIN config.profiles = {"1"}
    /\ ProfileValue(config, heap, "1").dpi_stages["1"] = 1600

====
